---- MODULE Spec2Model ----
(***************************************************************************)
(* Model of src/sus_unified_dbt_project/run_pipeline_dbt.py.               *)
(*                                                                         *)
(* Three components are modelled, each with its own specification:         *)
(*   SpecPipeline  the __main__ sequence: run_dbt, the four warehouse      *)
(*                 queries, the empty-dataset guard, export, open;         *)
(*   SpecSheet     export_to_excel: the worksheet's shared append cursor   *)
(*                 and the rows each block computes from start_row;        *)
(*   SpecPivot /   build_pivot_table on one feed: reshape, per-provider    *)
(*   SpecStats     weekday/weekend statistics, cell classification.        *)
(*                                                                         *)
(* The statements of __main__ are modelled in their textual order (lines   *)
(* 285-314); as committed, lines 294-306 are dedented out of the           *)
(* `if __name__` block, which makes line 308 an IndentationError.          *)
(***************************************************************************)
EXTENDS Integers, Sequences, FiniteSets, TLC

VARIABLES
    \* ---- __main__ ----
    pc,              \* next statement of __main__
    steps,           \* history: the steps started so far, in order
    dbt_run,         \* outcome of `dbt run`:  "none" | "ok" | "failed"
    dbt_test,        \* outcome of `dbt test`: "none" | "ok" | "failed"
    warned,          \* the warning of line 35 was printed
    fetched,         \* datasets whose query has returned a DataFrame
    nrows,           \* number of rows of each fetched DataFrame
    conns,           \* every connection ever opened, in order
    export_entered,  \* export_to_excel was called
    file_saved,      \* wb.save wrote the report
    file_opened,     \* os.startfile succeeded
    exit_code,       \* -1 while running, else the process's exit code
    \* ---- export_to_excel ----
    ws,              \* the worksheet: append cursor, cells, max_column
    blocks,          \* history: what each build_* call computed from start_row
    sheet_pc,        \* next statement of export_to_excel
    \* ---- build_pivot_table ----
    df,              \* the feed: long-format rows of one activity query
    out              \* what build_pivot_table produced for df

pipeVars  == <<pc, steps, dbt_run, dbt_test, warned, fetched, nrows, conns,
               export_entered, file_saved, file_opened, exit_code>>
sheetVars == <<ws, blocks, sheet_pc>>
pivotVars == <<df, out>>
vars == <<pipeVars, sheetVars, pivotVars>>

(***************************************************************************)
(* Small helpers                                                           *)
(***************************************************************************)
Max(a, b) == IF a >= b THEN a ELSE b

MinOf(S) == CHOOSE x \in S : \A y \in S : x <= y

MaxOf(S) == CHOOSE x \in S : \A y \in S : x >= y

IsPrefix(s, t) == /\ Len(s) <= Len(t)
                  /\ \A i \in 1..Len(s) : s[i] = t[i]

(***************************************************************************)
(* __main__  (lines 284-314) and the functions it calls                    *)
(***************************************************************************)
\* Bound: a query returns 0..MaxRows rows.
MaxRows == 2

DatasetNames == {"summary", "inpatient", "op", "ecds"}

\* The order of the pipeline's steps when nothing fails and nothing is empty.
PipelineSteps == <<"dbt run", "dbt test", "query summary", "query inpatient",
                   "query op", "query ecds", "guard", "render", "save", "open">>

\* line 29: subprocess.run(["dbt", "run"], check=True): a failing exit status
\* raises CalledProcessError, which nothing catches.
RunCheckIgnored == FALSE

RunFailureIsFatal == TRUE

\* lines 32-35: the CalledProcessError of `dbt test` is caught.
TestFailureUncaught == FALSE

TestFailureIsCaught == TRUE

\* run_dbt, lines 25-35, as called at line 285.
RunDbt(run_ok, test_ok) ==
    /\ pc = "run_dbt"
    /\ dbt_run' = IF run_ok THEN "ok" ELSE "failed"
    /\ IF ~run_ok /\ RunFailureIsFatal
         THEN \* uncaught CalledProcessError: traceback, exit status 1
              /\ steps' = <<"dbt run">>
              /\ pc' = "exit"
              /\ exit_code' = 1
              /\ UNCHANGED <<dbt_test, warned>>
         ELSE /\ steps' = <<"dbt run", "dbt test">>
              /\ dbt_test' = IF test_ok THEN "ok" ELSE "failed"
              /\ IF ~test_ok /\ ~TestFailureIsCaught
                   THEN /\ pc' = "exit"
                        /\ exit_code' = 1
                        /\ UNCHANGED warned
                   ELSE /\ warned' = ~test_ok
                        /\ pc' = "query_summary"
                        /\ UNCHANGED exit_code
    /\ UNCHANGED <<fetched, nrows, conns, export_entered, file_saved, file_opened>>
    /\ UNCHANGED <<sheetVars, pivotVars>>

\* Where each query sits in __main__ and what follows it.
QueryPc(d) == CASE d = "summary"   -> "query_summary"
                [] d = "inpatient" -> "query_inpatient"
                [] d = "op"        -> "query_op"
                [] d = "ecds"      -> "query_ecds"

QueryStep(d) == CASE d = "summary"   -> "query summary"
                  [] d = "inpatient" -> "query inpatient"
                  [] d = "op"        -> "query op"
                  [] d = "ecds"      -> "query ecds"

AfterQuery(d) == CASE d = "summary"   -> "query_inpatient"
                   [] d = "inpatient" -> "query_op"
                   [] d = "op"        -> "query_ecds"
                   [] d = "ecds"      -> "guard"

\* lines 38-46 / 57-65: snowflake.connector.connect(...) returns a new
\* connection object, bound to the local `conn`.
Connect(cs, d) == Append(cs, [by |-> d, state |-> "open"])

\* query_snowflake_summary (56-80) and query_snowflake_activity (37-54) when
\* connect, execute and fetchall succeed: n rows come back.  Neither function
\* calls conn.close() nor uses a context manager.
QueryReturns(d, n) ==
    /\ pc = QueryPc(d)
    /\ steps' = Append(steps, QueryStep(d))
    /\ conns' = Connect(conns, d)
    /\ fetched' = fetched \cup {d}
    /\ nrows' = [nrows EXCEPT ![d] = n]
    /\ pc' = AfterQuery(d)
    /\ UNCHANGED <<dbt_run, dbt_test, warned, export_entered, file_saved,
                   file_opened, exit_code>>
    /\ UNCHANGED <<sheetVars, pivotVars>>

\* The same functions when connect raises (connected = FALSE) or when
\* cur.execute / fetchall raises on the open connection: the exception
\* propagates out of __main__.
QueryRaises(d, connected) ==
    /\ pc = QueryPc(d)
    /\ steps' = Append(steps, QueryStep(d))
    /\ conns' = IF connected THEN Connect(conns, d) ELSE conns
    /\ pc' = "exit"
    /\ exit_code' = 1
    /\ UNCHANGED <<dbt_run, dbt_test, warned, fetched, nrows, export_entered,
                   file_saved, file_opened>>
    /\ UNCHANGED <<sheetVars, pivotVars>>

\* The local `conn` is dropped when the query function returns (lines 54, 80);
\* the only thing that can close the connection afterwards is the runtime
\* (the object's finalizer, or interpreter shutdown), at a time the code does
\* not control.
Finalize(i) ==
    /\ pc \notin {"idle", "run_dbt"}
    /\ i \in 1..Len(conns)
    /\ conns[i].state = "open"
    /\ conns' = [conns EXCEPT ![i].state = "closed"]
    /\ UNCHANGED <<pc, steps, dbt_run, dbt_test, warned, fetched, nrows,
                   export_entered, file_saved, file_opened, exit_code>>
    /\ UNCHANGED <<sheetVars, pivotVars>>

\* line 308: df_summary.empty or df_inpatient.empty or df_op.empty or df_ecds.empty
AllEmpty(n) == \A d \in DatasetNames : n[d] = 0

AnyEmpty(n) == \E d \in DatasetNames : n[d] = 0

\* lines 308-310: the empty-dataset guard.
Guard ==
    /\ pc = "guard"
    /\ steps' = Append(steps, "guard")
    /\ IF AnyEmpty(nrows)
         THEN /\ pc' = "exit"        \* sys.exit(0)
              /\ exit_code' = 0
         ELSE /\ pc' = "export"
              /\ UNCHANGED exit_code
    /\ UNCHANGED <<dbt_run, dbt_test, warned, fetched, nrows, conns,
                   export_entered, file_saved, file_opened>>
    /\ UNCHANGED <<sheetVars, pivotVars>>

\* line 312: export_to_excel (253-276).  result: "ok", or a build_* call raises
\* ("render_error"), or wb.save raises ("save_error").
Export(result) ==
    /\ pc = "export"
    /\ export_entered' = TRUE
    /\ steps' = IF result = "render_error"
                  THEN Append(steps, "render")
                  ELSE steps \o <<"render", "save">>
    /\ file_saved' = (result = "ok")
    /\ IF result = "ok"
         THEN /\ pc' = "open"
              /\ UNCHANGED exit_code
         ELSE /\ pc' = "exit"
              /\ exit_code' = 1
    /\ UNCHANGED <<dbt_run, dbt_test, warned, fetched, nrows, conns, file_opened>>
    /\ UNCHANGED <<sheetVars, pivotVars>>

\* lines 313-314: open_excel (278-282) swallows every exception of
\* os.startfile; then the script ends normally.
OpenExcel(started) ==
    /\ pc = "open"
    /\ steps' = Append(steps, "open")
    /\ file_opened' = started
    /\ pc' = "exit"
    /\ exit_code' = 0
    /\ UNCHANGED <<dbt_run, dbt_test, warned, fetched, nrows, conns,
                   export_entered, file_saved>>
    /\ UNCHANGED <<sheetVars, pivotVars>>

(***************************************************************************)
(* The worksheet (openpyxl Worksheet as export_to_excel uses it)           *)
(*                                                                         *)
(* ws.current_row is the append cursor (_current_row): ws.append writes at *)
(* current_row + 1; creating a cell at row r through ws.cell / iter_rows   *)
(* raises it to max(r, current_row).  ws.max_row / ws.max_column look only *)
(* at rows / columns that hold cells, so ws.append([]) moves the cursor    *)
(* without moving max_row.  cells maps each row that holds cells to what   *)
(* its first column holds.  clobbered records a write into a row that an   *)
(* earlier block had written.                                              *)
(***************************************************************************)
\* Bounds: rows of the summary DataFrame, providers and dates of a feed.
MaxSummaryRows == 2

MaxProviders == 2

MaxDates == 6

Tag(blk, what, idx) == [blk |-> blk, what |-> what, idx |-> idx]

EmptySheet == [current_row |-> 0, max_col |-> 1, cells |-> <<>>, clobbered |-> FALSE]

WsPut(cells, row, tag) ==
    [r \in (DOMAIN cells) \cup {row} |-> IF r = row THEN tag ELSE cells[r]]

Clobbers(w, row, tag) == row \in DOMAIN w.cells /\ w.cells[row].blk # tag.blk

\* ws.cell(row=row, column=1, value=...), lines 84, 170-172.
WsCell(w, row, tag) ==
    [current_row |-> Max(row, w.current_row),
     max_col     |-> w.max_col,
     cells       |-> WsPut(w.cells, row, tag),
     clobbered   |-> w.clobbered \/ Clobbers(w, row, tag)]

\* ws.append(list of ncols values), lines 88, 92, 177, 188, 200, 262.
WsAppend(w, ncols, tag) ==
    LET row == w.current_row + 1 IN
    IF ncols = 0
      THEN [w EXCEPT !.current_row = row]
      ELSE [current_row |-> row,
            max_col     |-> Max(w.max_col, ncols),
            cells       |-> WsPut(w.cells, row, tag),
            clobbered   |-> w.clobbered \/ Clobbers(w, row, tag)]

\* One ws.append per row of the DataFrame (lines 91-99, 199-200): rows k..n.
RECURSIVE WsAppendData(_, _, _, _, _)
WsAppendData(w, blk, k, n, ncols) ==
    IF k > n THEN w
    ELSE WsAppendData(WsAppend(w, ncols, Tag(blk, "data", k)), blk, k + 1, n, ncols)

\* ws.iter_rows(min_row, max_row, max_col) and ws[row]: cells that do not
\* exist yet are created empty (lines 113, 118, 178, 189, 215, 220).
WsTouch(w, rows, ncols, blk) ==
    IF rows = {} THEN w
    ELSE [current_row |-> Max(MaxOf(rows), w.current_row),
          max_col     |-> Max(w.max_col, ncols),
          cells       |-> [r \in (DOMAIN w.cells) \cup rows |->
                              IF r \in DOMAIN w.cells THEN w.cells[r]
                              ELSE Tag(blk, "empty", 0)],
          clobbered   |-> w.clobbered]

\* ws.max_row
WsMaxRow(w) == IF DOMAIN w.cells = {} THEN 1 ELSE MaxOf(DOMAIN w.cells)

\* line 110 (and the six headers of line 87)
SummaryCols == 6

\* build_summary_table(ws, df, title, start_row), lines 82-128, for a
\* DataFrame of m rows.  Returns the worksheet and what the call computed.
BuildSummaryTable(w, m, start_row) ==
    LET w1 == WsCell(w, start_row, Tag("summary", "title", 0))
        w2 == WsAppend(w1, SummaryCols, Tag("summary", "header", 0))
        w3 == WsAppendData(w2, "summary", 1, m, SummaryCols)
        header_row     == start_row + 1
        first_data_row == header_row + 1
        last_row       == WsMaxRow(w3)
        w4 == WsTouch(w3, {header_row}, SummaryCols, "summary")
        w5 == WsTouch(w4, first_data_row..last_row, SummaryCols, "summary")
    IN [ws  |-> w5,
        blk |-> [blk |-> "summary", status |-> "done", n |-> m,
                 start_row |-> start_row, header_row |-> header_row,
                 first_data_row |-> first_data_row, last_row |-> last_row,
                 styled |-> [r \in first_data_row..last_row |-> r - first_data_row + 1]]]

\* line 174: header_row = start_row+3
TitleRowsOnly == 3 - 1

PivotHeaderOffset == 3

\* The row cursor of build_pivot_table(ws, df, title, start_row), lines
\* 169-221, for a feed of nprov providers and ndates distinct dates.
\* ws[header_row] (line 178) yields one cell per column up to ws.max_column;
\* day_order.iloc[idx-2] raises IndexError for idx-2 >= ndates, that is when
\* the sheet is wider than this block.  providers[row_idx] (line 221) raises
\* IndexError for row_idx >= nprov.
BuildPivotRows(w, blk, nprov, ndates, start_row) ==
    LET w1 == WsCell(w, start_row, Tag(blk, "timestamp", 0))
        w2 == WsCell(w1, start_row + 1, Tag(blk, "blank", 0))
        w3 == WsCell(w2, start_row + 2, Tag(blk, "title", 0))
        header_row == start_row + PivotHeaderOffset
        w4 == WsAppend(w3, ndates + 1, Tag(blk, "weekday_header", 0))
        w5 == WsTouch(w4, {header_row}, w4.max_col, blk)
        too_wide == w5.max_col > ndates + 1
        w6 == WsAppend(w5, ndates + 1, Tag(blk, "date_header", 0))
        w7 == WsTouch(w6, {header_row + 1}, w6.max_col, blk)
        w8 == WsAppendData(w7, blk, 1, nprov, ndates + 1)
        first_data_row == header_row + 2
        last_row       == WsMaxRow(w8)
        w9  == WsTouch(w8, header_row..(header_row + 1), ndates + 1, blk)
        w10 == WsTouch(w9, first_data_row..last_row, ndates + 1, blk)
        styled_rows == {r \in first_data_row..last_row : r - first_data_row + 1 <= nprov}
        none == [blk |-> blk, status |-> "IndexError", n |-> nprov,
                 start_row |-> start_row, header_row |-> header_row,
                 first_data_row |-> 0, last_row |-> 0, styled |-> <<>>]
    IN IF too_wide
         THEN [ws |-> w5, blk |-> none]
         ELSE [ws  |-> w10,
               blk |-> [blk |-> blk,
                        status |-> IF styled_rows = first_data_row..last_row
                                     THEN "done" ELSE "IndexError",
                        n |-> nprov,
                        start_row |-> start_row, header_row |-> header_row,
                        first_data_row |-> first_data_row, last_row |-> last_row,
                        styled |-> [r \in styled_rows |-> r - first_data_row + 1]]]

\* line 259: build_summary_table(ws, df_summary, ..., start_row=1)
SheetSummary(m) ==
    /\ sheet_pc = "summary"
    /\ LET r == BuildSummaryTable(ws, m, 1) IN
         /\ ws' = r.ws
         /\ blocks' = Append(blocks, r.blk)
    /\ sheet_pc' = "spacer"
    /\ UNCHANGED <<pipeVars, pivotVars>>

\* line 262: ws.append([]); ws.append([])
SheetSpacer ==
    /\ sheet_pc = "spacer"
    /\ ws' = WsAppend(WsAppend(ws, 0, Tag("spacer", "empty", 0)), 0, Tag("spacer", "empty", 0))
    /\ sheet_pc' = "inpatient"
    /\ UNCHANGED blocks
    /\ UNCHANGED <<pipeVars, pivotVars>>

\* lines 265, 268, 271: start_row=ws.max_row+1 for the inpatient block,
\* ws.max_row+3 for the two after it.
PivotStartRow(w, blk) == IF blk = "inpatient" THEN WsMaxRow(w) + 1 ELSE WsMaxRow(w) + 3

NextBlock(blk) == CASE blk = "inpatient"  -> "outpatient"
                    [] blk = "outpatient" -> "ecds"
                    [] blk = "ecds"       -> "save"

\* lines 265-271: one build_pivot_table call; an IndexError propagates out of
\* export_to_excel.
SheetPivot(nprov, ndates) ==
    /\ sheet_pc \in {"inpatient", "outpatient", "ecds"}
    /\ LET r == BuildPivotRows(ws, sheet_pc, nprov, ndates, PivotStartRow(ws, sheet_pc)) IN
         /\ ws' = r.ws
         /\ blocks' = Append(blocks, r.blk)
         /\ sheet_pc' = IF r.blk.status = "done" THEN NextBlock(sheet_pc) ELSE "raised"
    /\ UNCHANGED <<pipeVars, pivotVars>>

\* lines 273-276: freeze panes, save, return.
SheetSave ==
    /\ sheet_pc = "save"
    /\ sheet_pc' = "saved"
    /\ UNCHANGED <<ws, blocks>>
    /\ UNCHANGED <<pipeVars, pivotVars>>

(***************************************************************************)
(* build_pivot_table: reshape, statistics, classification (lines 130-245)  *)
(*                                                                         *)
(* A date is its ordinal in 2024 (1 = Monday 1 January 2024).  A provider  *)
(* is its rank in the sort order of provider names.  RECORDS is a record   *)
(* [na, v]: na for a NULL count, v the integer count otherwise.            *)
(***************************************************************************)
NaN == [na |-> TRUE, v |-> 0]

Num(v) == [na |-> FALSE, v |-> v]

\* .dt.weekday / .weekday(): Monday = 0 ... Sunday = 6 (lines 147-148, 182, 231)
Weekday(d) == (d - 1) % 7

IsWeekend(d) == Weekday(d) >= 5

\* strftime("%d/%m/%Y"), lines 53 and 132, as <<dd, mm, yyyy>> (January and
\* February 2024).
DayLabel(d) == IF d <= 31 THEN <<d, 1, 2024>> ELSE <<d - 31, 2, 2024>>

\* Order of the label strings "dd/mm/yyyy": character by character, so day
\* first, then month, then year.
LabelBefore(a, b) ==
    \/ a[1] < b[1]
    \/ a[1] = b[1] /\ a[2] < b[2]
    \/ a[1] = b[1] /\ a[2] = b[2] /\ a[3] < b[3]

RECURSIVE SortedSeq(_)
SortedSeq(S) == IF S = {} THEN <<>>
                ELSE LET m == MinOf(S) IN <<m>> \o SortedSeq(S \ {m})

RECURSIVE SortedLabels(_)
SortedLabels(L) ==
    IF L = {} THEN <<>>
    ELSE LET m == CHOOSE x \in L : \A y \in L : x = y \/ LabelBefore(x, y)
         IN <<m>> \o SortedLabels(L \ {m})

Range(s) == {s[i] : i \in DOMAIN s}

\* line 135: day_order = df[[ACTIVITY_DATE, DAY_LABEL, WEEKDAY]]
\*           .drop_duplicates().sort_values("ACTIVITY_DATE")
DayOrder(d) == SortedSeq({r.ACTIVITY_DATE : r \in d})

\* line 138: providers = sorted(df["PROVIDER"].unique()); unique() lists the
\* providers in their order of first appearance in the query result (seen).
ProvidersOf(d, seen) == SortedSeq(Range(seen))

\* line 140: df.pivot(index="PROVIDER", columns="DAY_LABEL", values="RECORDS"):
\* index and columns come out sorted, the columns as label strings; a
\* provider/label combination with no row holds NaN.
Pivot(d) ==
    LET index   == SortedSeq({r.PROVIDER : r \in d})
        columns == SortedLabels({DayLabel(r.ACTIVITY_DATE) : r \in d})
    IN [index   |-> index,
        columns |-> columns,
        val     |-> [k \in Range(index) \X Range(columns) |->
                        LET at == {r \in d : r.PROVIDER = k[1]
                                             /\ DayLabel(r.ACTIVITY_DATE) = k[2]}
                        IN IF at = {} THEN NaN ELSE (CHOOSE r \in at : TRUE).RECORDS]]

\* line 141: pivot_records.reindex(index=providers, columns=day_labels_sorted)
NoReindex(pr, index, columns) == pr

Reindex(pr, index, columns) ==
    [index   |-> index,
     columns |-> columns,
     val     |-> [k \in Range(index) \X Range(columns) |->
                     IF k \in DOMAIN pr.val THEN pr.val[k] ELSE NaN]]

\* line 152: valid = series[series.notna() & (series > 0)]
ValidOrZero(r) == ~r.RECORDS.na /\ r.RECORDS.v >= 0

Valid(r) == ~r.RECORDS.na /\ r.RECORDS.v > 0

\* line 153: len(valid) > 2
MoreThanOne(n) == n > 1

EnoughSamples(n) == n > 2

RECURSIVE SumOver(_, _)
SumOver(rows, sq) ==
    IF rows = {} THEN 0
    ELSE LET r == CHOOSE x \in rows : TRUE
         IN (IF sq THEN r.RECORDS.v * r.RECORDS.v ELSE r.RECORDS.v)
            + SumOver(rows \ {r}, sq)

\* lines 146-156: the statistics of one provider and weekday-class.  mean and
\* std are kept exactly, as n, the sum S and the sum of squares Q of the
\* valid values: mean = S/n, std^2 = (n*Q - S*S) / (n*(n-1))  (ddof = 1).
ProviderStats(d, p, weekend) ==
    LET valid == {r \in d : /\ r.PROVIDER = p
                            /\ IsWeekend(r.ACTIVITY_DATE) = weekend
                            /\ Valid(r)}
        n == Cardinality(valid)
    IN IF EnoughSamples(n)
         THEN [present |-> TRUE, n |-> n, S |-> SumOver(valid, FALSE),
               Q |-> SumOver(valid, TRUE)]
         ELSE [present |-> FALSE, n |-> 0, S |-> 0, Q |-> 0]

\* lines 159-165: map_status.  The result is the string "MISSING" or a
\* Python int.
Missing == [t |-> "str", v |-> 0]

MapStatusNaOnly(val) == IF val.na THEN Missing ELSE [t |-> "int", v |-> val.v]

MapStatus(val) ==
    IF val.na THEN Missing
    ELSE IF val.v = 0 THEN Missing
    ELSE [t |-> "int", v |-> val.v]

\* lines 199-200: list(row.values) of pivot = pivot_records.map(map_status).
\* A column that holds a "MISSING" is an object column; a column that holds
\* none is an int64 column.  iterrows() takes its rows from DataFrame.values:
\* an object array, holding Python ints, when any column is an object
\* column; an int64 array when every column is int64, and then the list
\* holds numpy.int64 scalars, which is what ws.append stores in the cells.
RowValues(pivot, p) ==
    LET all_int64 == \A k \in DOMAIN pivot.val : pivot.val[k].t = "int"
    IN [j \in DOMAIN pivot.columns |->
           LET c == pivot.val[<<p, pivot.columns[j]>>]
           IN IF all_int64 THEN [t |-> "int64", v |-> c.v] ELSE c]

\* line 234: stats["std"] > 0   (std is NaN for fewer than two values)
StdPositive(st) == st.n > 1 /\ st.n * st.Q - st.S * st.S > 0

\* line 235: z_score = abs((float(c.value) - mean) / std); z_score > t, for
\* std > 0, is  (n*v - S)^2 * (n-1) > t^2 * n * (n*Q - S^2).
ZAbove(v, st, t) ==
    (st.n * v - st.S) * (st.n * v - st.S) * (st.n - 1)
        > t * t * st.n * (st.n * st.Q - st.S * st.S)

\* lines 226-245: the fill of one data cell.  isinstance(c.value, (int,
\* float)) holds for a Python int and not for a numpy.int64.
Fill(c, st) ==
    IF c.t = "str" THEN "red"
    ELSE IF c.t = "int"
      THEN IF st.present /\ StdPositive(st)
             THEN IF ZAbove(c.v, st, 3) THEN "orange"
                  ELSE IF ZAbove(c.v, st, 2) THEN "yellow"
                  ELSE "green"
             ELSE "green"
    ELSE "green"

\* lines 230-232: the statistics a cell of column j is compared with.
StatsFor(stats, p, date) == stats[<<p, IsWeekend(date)>>]

NoOut == [status |-> "none", providers |-> <<>>, day_order |-> <<>>,
          header |-> <<>>, grid |-> <<>>, stats |-> <<>>, rows |-> <<>>,
          fills |-> <<>>]

\* build_pivot_table(ws, df, title, start_row), lines 130-245, on the feed d
\* whose providers first appear in the order seen, on a worksheet that is
\* max_col columns wide at entry.
PivotTable(d, seen, max_col) ==
    LET day_order         == DayOrder(d)
        day_labels_sorted == [j \in DOMAIN day_order |-> DayLabel(day_order[j])]
        providers         == ProvidersOf(d, seen)
        pivot_records     == Reindex(Pivot(d), providers, day_labels_sorted)
        stats == [k \in Range(providers) \X BOOLEAN |-> ProviderStats(d, k[1], k[2])]
        pivot == [pivot_records EXCEPT
                     !.val = [k \in DOMAIN pivot_records.val |->
                                 MapStatus(pivot_records.val[k])]]
        rows  == [i \in DOMAIN pivot.index |->
                     [provider |-> pivot.index[i],
                      values   |-> RowValues(pivot, pivot.index[i])]]
        \* line 178: ws[header_row] is as wide as the sheet
        too_wide == Max(max_col, Len(day_order) + 1) > Len(day_order) + 1
        fills == [i \in DOMAIN rows |->
                    [j \in DOMAIN rows[i].values |->
                        Fill(rows[i].values[j],
                             StatsFor(stats, providers[i], day_order[j]))]]
        reshaped == [status |-> "IndexError", providers |-> providers,
                     day_order |-> day_order, header |-> <<>>,
                     grid |-> [i \in DOMAIN pivot_records.index |->
                                 [j \in DOMAIN pivot_records.columns |->
                                     pivot_records.val[<<pivot_records.index[i],
                                                         pivot_records.columns[j]>>]]],
                     stats |-> stats, rows |-> <<>>, fills |-> <<>>]
    IN IF too_wide THEN reshaped
       ELSE [reshaped EXCEPT !.status = "done", !.header = day_labels_sorted,
                             !.rows = rows, !.fills = fills]

\* The inpatient call of line 265 finds the sheet as wide as the summary
\* block left it (line 259).
WidthAtEntry == SummaryCols

RECURSIVE Perms(_)
Perms(S) == IF S = {} THEN {<<>>}
            ELSE UNION {{<<x>> \o q : q \in Perms(S \ {x})} : x \in S}

BuildPivotTable(seen) ==
    /\ out.status = "none"
    /\ df # {}
    /\ seen \in Perms({r.PROVIDER : r \in df})
    /\ out' = PivotTable(df, seen, WidthAtEntry)
    /\ UNCHANGED df
    /\ UNCHANGED <<pipeVars, sheetVars>>

(***************************************************************************)
(* Feeds.  SpecPivot: two providers over the six days Tuesday 30 January   *)
(* to Sunday 4 February 2024; the warehouse table starts as a steady feed  *)
(* (every provider reports BaseRecords on every day) and at most           *)
(* MaxDeviations rows deviate from it: the row is missing (either          *)
(* provider), or provider 1's count is NULL or one of DeviantRecords.      *)
(***************************************************************************)
MaxDeviations == 4

FeedProviders == {1, 2}

Miscounting == {1}

FeedWindow == 30..35

BaseRecords == Num(1)

DeviantRecords == {NaN, Num(-1), Num(0), Num(3)}

Row(p, d, r) == [PROVIDER |-> p, ACTIVITY_DATE |-> d, RECORDS |-> r]

BaseFeed == {Row(p, d, BaseRecords) : p \in FeedProviders, d \in FeedWindow}

Deviations(f) == Cardinality(BaseFeed \ f)

\* A provider did not submit for a day: the table has no row for it.
DropRow(p, d) ==
    /\ out.status = "none"
    /\ Deviations(df) < MaxDeviations \/ Row(p, d, BaseRecords) \notin df
    /\ \E r \in df : /\ r.PROVIDER = p /\ r.ACTIVITY_DATE = d
                     /\ df' = df \ {r}
    /\ Deviations(df') <= MaxDeviations
    /\ df' # {}
    /\ UNCHANGED out
    /\ UNCHANGED <<pipeVars, sheetVars>>

\* A provider's row for a day holds another count.
SetRecords(p, d, v) ==
    /\ out.status = "none"
    /\ Deviations(df) < MaxDeviations \/ Row(p, d, BaseRecords) \notin df
    /\ \E r \in df : /\ r.PROVIDER = p /\ r.ACTIVITY_DATE = d
                     /\ df' = (df \ {r}) \cup {Row(p, d, v)}
    /\ Deviations(df') <= MaxDeviations
    /\ UNCHANGED out
    /\ UNCHANGED <<pipeVars, sheetVars>>

(***************************************************************************)
(* SpecStats: one provider that reports on weekdays only, over the first   *)
(* StatDays weekdays of 2024.  The table starts as a steady feed and at    *)
(* most MaxStatDeviations of its rows hold one of StatDeviants instead.    *)
(***************************************************************************)
StatDays == 12

MaxStatDeviations == 5

StatDeviants == {Num(0), Num(2)}

\* the i-th weekday of 2024, as a day ordinal
NthWeekday(i) == 7 * ((i - 1) \div 5) + ((i - 1) % 5) + 1

StatBaseFeed == {Row(1, NthWeekday(i), BaseRecords) : i \in 1..StatDays}

\* The provider's row for its i-th weekday holds another count.
StatSetRecords(i, v) ==
    /\ out.status = "none"
    /\ \/ Cardinality(StatBaseFeed \ df) < MaxStatDeviations
       \/ Row(1, NthWeekday(i), BaseRecords) \notin df
    /\ \E r \in df : /\ r.ACTIVITY_DATE = NthWeekday(i)
                     /\ df' = (df \ {r}) \cup {Row(1, NthWeekday(i), v)}
    /\ Cardinality(StatBaseFeed \ df') <= MaxStatDeviations
    /\ UNCHANGED out
    /\ UNCHANGED <<pipeVars, sheetVars>>

(***************************************************************************)
(* Specifications                                                          *)
(***************************************************************************)
PipeNext ==
    \/ \E run_ok \in BOOLEAN, test_ok \in BOOLEAN : RunDbt(run_ok, test_ok)
    \/ \E d \in DatasetNames, n \in 0..MaxRows : QueryReturns(d, n)
    \/ \E d \in DatasetNames, connected \in BOOLEAN : QueryRaises(d, connected)
    \/ \E i \in 1..Len(conns) : Finalize(i)
    \/ Guard
    \/ \E result \in {"ok", "render_error", "save_error"} : Export(result)
    \/ \E started \in BOOLEAN : OpenExcel(started)

SheetNext ==
    \/ \E m \in 1..MaxSummaryRows : SheetSummary(m)
    \/ SheetSpacer
    \/ \E nprov \in 1..MaxProviders, ndates \in 1..MaxDates : SheetPivot(nprov, ndates)
    \/ SheetSave

PivotNext ==
    \/ \E p \in FeedProviders, d \in FeedWindow : DropRow(p, d)
    \/ \E p \in Miscounting, d \in FeedWindow, v \in DeviantRecords : SetRecords(p, d, v)
    \/ \E seen \in Perms(FeedProviders) : BuildPivotTable(seen)

StatNext ==
    \/ \E i \in 1..StatDays, v \in StatDeviants : StatSetRecords(i, v)
    \/ \E seen \in Perms({1}) : BuildPivotTable(seen)

\* line 284: the script starts; no workbook and no feed are modelled.
InitPipeline ==
    /\ pc = "run_dbt"
    /\ steps = <<>>
    /\ dbt_run = "none"
    /\ dbt_test = "none"
    /\ warned = FALSE
    /\ fetched = {}
    /\ nrows = [d \in DatasetNames |-> 0]
    /\ conns = <<>>
    /\ export_entered = FALSE
    /\ file_saved = FALSE
    /\ file_opened = FALSE
    /\ exit_code = -1
    /\ ws = EmptySheet
    /\ blocks = <<>>
    /\ sheet_pc = "idle"
    /\ df = {}
    /\ out = NoOut

SpecPipeline == InitPipeline /\ [][PipeNext]_vars

\* lines 254-256: export_to_excel starts on the new workbook's sheet.
InitSheet ==
    /\ pc = "idle"
    /\ steps = <<>>
    /\ dbt_run = "none"
    /\ dbt_test = "none"
    /\ warned = FALSE
    /\ fetched = {}
    /\ nrows = [d \in DatasetNames |-> 0]
    /\ conns = <<>>
    /\ export_entered = FALSE
    /\ file_saved = FALSE
    /\ file_opened = FALSE
    /\ exit_code = -1
    /\ ws = EmptySheet
    /\ blocks = <<>>
    /\ sheet_pc = "summary"
    /\ df = {}
    /\ out = NoOut

SpecSheet == InitSheet /\ [][SheetNext]_vars

\* lines 287-292: the warehouse table holds the steady feed.
InitPivot ==
    /\ pc = "idle"
    /\ steps = <<>>
    /\ dbt_run = "none"
    /\ dbt_test = "none"
    /\ warned = FALSE
    /\ fetched = {}
    /\ nrows = [d \in DatasetNames |-> 0]
    /\ conns = <<>>
    /\ export_entered = FALSE
    /\ file_saved = FALSE
    /\ file_opened = FALSE
    /\ exit_code = -1
    /\ ws = EmptySheet
    /\ blocks = <<>>
    /\ sheet_pc = "idle"
    /\ df = BaseFeed
    /\ out = NoOut

SpecPivot == InitPivot /\ [][PivotNext]_vars

\* lines 287-292: one provider's steady weekday feed.
InitStats ==
    /\ pc = "idle"
    /\ steps = <<>>
    /\ dbt_run = "none"
    /\ dbt_test = "none"
    /\ warned = FALSE
    /\ fetched = {}
    /\ nrows = [d \in DatasetNames |-> 0]
    /\ conns = <<>>
    /\ export_entered = FALSE
    /\ file_saved = FALSE
    /\ file_opened = FALSE
    /\ exit_code = -1
    /\ ws = EmptySheet
    /\ blocks = <<>>
    /\ sheet_pc = "idle"
    /\ df = StatBaseFeed
    /\ out = NoOut

SpecStats == InitStats /\ [][StatNext]_vars

(***************************************************************************)
(* Properties of the pipeline (SpecPipeline)                               *)
(***************************************************************************)
AllFetched == fetched = DatasetNames

SomeEmpty == \E d \in DatasetNames : nrows[d] = 0

\* C1: when `dbt run` fails the pipeline aborts with a fatal error: the
\* process is over with a non-zero exit code, `dbt test` was not started, no
\* warehouse query was issued (no step after "dbt run", no connection, no
\* dataset) and no report file was written.
C1_PrimaryFailureAborts ==
    dbt_run = "failed" =>
        /\ pc = "exit" /\ exit_code # 0
        /\ dbt_test = "none"
        /\ steps = <<"dbt run">>
        /\ conns = <<>> /\ fetched = {}
        /\ ~export_entered /\ ~file_saved

C1_Witness == dbt_run = "failed" /\ pc = "exit"

\* C2: when `dbt run` succeeded and `dbt test` fails, run_dbt prints the
\* warning and returns normally (the next statement is the first query, the
\* process is still running), and from there the pipeline goes through the
\* same sequence of steps as after a passing test: the steps started are
\* always a prefix of PipelineSteps, whatever the test's outcome, and a run
\* that ends with the report opened has gone through all of them.
C2_TestFailureContinues ==
    /\ dbt_test = "failed" =>
          /\ dbt_run = "ok" /\ warned
          /\ Len(steps) = 2 => pc = "query_summary" /\ exit_code = -1
    /\ dbt_test \in {"ok", "failed"} =>
          /\ IsPrefix(steps, PipelineSteps)
          /\ warned = (dbt_test = "failed")
          /\ (pc = "exit" /\ exit_code = 0 /\ file_saved) => steps = PipelineSteps

C2_Witness ==
    /\ dbt_test = "failed" /\ warned
    /\ pc = "exit" /\ exit_code = 0 /\ file_saved /\ file_opened
    /\ steps = PipelineSteps

\* C3: once the four datasets are fetched and at least one of them has zero
\* rows, export_to_excel is never entered, no file is written and the process
\* ends with exit code 0; and export_to_excel is entered only when all four
\* datasets have been fetched and none is empty.
C3_EmptyDatasetGuard ==
    /\ (AllFetched /\ SomeEmpty) =>
          /\ ~export_entered /\ ~file_saved /\ ~file_opened
          /\ pc \in {"guard", "exit"}
          /\ pc = "exit" => exit_code = 0
    /\ (export_entered \/ pc = "export") => (AllFetched /\ ~SomeEmpty)

C3_Witness ==
    /\ pc = "exit" /\ exit_code = 0
    /\ AllFetched /\ nrows["ecds"] = 0 /\ nrows["summary"] > 0
    /\ ~export_entered /\ ~file_saved

\* C8: every query call that returned opened exactly one connection of its
\* own, and every connection is closed once the call that opened it is over,
\* so none is open when rendering is reached or the process ends.
C8_ConnectionClosedOnReturn ==
    /\ \A d \in fetched : Cardinality({i \in DOMAIN conns : conns[i].by = d}) = 1
    /\ \A i \in DOMAIN conns : conns[i].state = "closed"

(***************************************************************************)
(* Properties of the worksheet's row cursor (SpecSheet)                    *)
(***************************************************************************)
HoldsAt(row, blk, what, idx) ==
    row \in DOMAIN ws.cells /\ ws.cells[row] = Tag(blk, what, idx)

\* C9: in every block the rows written through the shared append cursor are
\* the rows the block computes from start_row.  Summary: header at
\* start_row+1, data from start_row+2.  Pivot: weekday header at
\* start_row+3, date header at start_row+4, the k-th provider (k = 1..n) at
\* start_row+4+k, last_row being the last provider's row; every styled row
\* is styled with the statistics of the provider written in it; and no block
\* writes into a row an earlier block wrote.
C9_RowCursorConsistent ==
    /\ ~ws.clobbered
    /\ \A b \in DOMAIN blocks :
          LET B == blocks[b] IN
          IF B.blk = "summary"
            THEN /\ HoldsAt(B.start_row, "summary", "title", 0)
                 /\ B.header_row = B.start_row + 1
                 /\ HoldsAt(B.header_row, "summary", "header", 0)
                 /\ B.first_data_row = B.start_row + 2
                 /\ B.last_row = B.start_row + 1 + B.n
                 /\ \A k \in 1..B.n : HoldsAt(B.start_row + 1 + k, "summary", "data", k)
                 /\ DOMAIN B.styled = (B.start_row + 2)..(B.start_row + 1 + B.n)
            ELSE /\ HoldsAt(B.start_row, B.blk, "timestamp", 0)
                 /\ HoldsAt(B.start_row + 2, B.blk, "title", 0)
                 /\ B.header_row = B.start_row + 3
                 /\ HoldsAt(B.header_row, B.blk, "weekday_header", 0)
                 /\ B.status = "done" =>
                       /\ HoldsAt(B.start_row + 4, B.blk, "date_header", 0)
                       /\ B.first_data_row = B.start_row + 5
                       /\ B.last_row = B.start_row + 4 + B.n
                       /\ \A k \in 1..B.n : HoldsAt(B.start_row + 4 + k, B.blk, "data", k)
                       /\ DOMAIN B.styled = (B.start_row + 5)..(B.start_row + 4 + B.n)
                       /\ \A r \in DOMAIN B.styled : HoldsAt(r, B.blk, "data", B.styled[r])

C9_Witness ==
    /\ sheet_pc = "saved"
    /\ Len(blocks) = 4
    /\ \A b \in DOMAIN blocks : blocks[b].status = "done" /\ blocks[b].n >= 2

(***************************************************************************)
(* Properties of build_pivot_table (SpecPivot, SpecStats)                  *)
(***************************************************************************)
InFeed == {r.PROVIDER : r \in df}

DatesInFeed == {r.ACTIVITY_DATE : r \in df}

\* 1-based position of x in the ascending order of S
RankIn(x, S) == Cardinality({y \in S : y <= x})

RowsAt(p, d) == {r \in df : r.PROVIDER = p /\ r.ACTIVITY_DATE = d}

\* the record count at (p, d) is 0 or absent
ZeroOrAbsent(p, d) == \A r \in RowsAt(p, d) : r.RECORDS.na \/ r.RECORDS.v = 0

\* the qualifying records of a provider and weekday-class
Qualifying(p, weekend) ==
    {r \in df : /\ r.PROVIDER = p /\ IsWeekend(r.ACTIVITY_DATE) = weekend
                /\ ~r.RECORDS.na /\ r.RECORDS.v > 0}

CountOf(p, d) == (CHOOSE r \in RowsAt(p, d) : TRUE).RECORDS.v

WrittenAt(p, d) == out.rows[RankIn(p, InFeed)].values[RankIn(d, DatesInFeed)]

FillAt(p, d) == out.fills[RankIn(p, InFeed)][RankIn(d, DatesInFeed)]

\* C4: for a provider and weekday-class with at most 2 qualifying records
\* the baseline is absent and no cell of that provider in a column of that
\* class is orange (SEVERE) or yellow (MODERATE), whatever its value.
C4_InsufficientEvidence ==
    out.status = "done" =>
        \A p \in InFeed, d \in DatesInFeed :
            Cardinality(Qualifying(p, IsWeekend(d))) <= 2 =>
                /\ ~out.stats[<<p, IsWeekend(d)>>].present
                /\ FillAt(p, d) \notin {"orange", "yellow"}

C4_Witness ==
    /\ out.status = "done"
    /\ \E p \in InFeed, d \in DatesInFeed :
          /\ Cardinality(Qualifying(p, IsWeekend(d))) = 2
          /\ \E q \in Qualifying(p, IsWeekend(d)) : q.RECORDS.v = 3
          /\ WrittenAt(p, d) = [t |-> "int", v |-> -1]
          /\ FillAt(p, d) = "green"

\* C5: a cell whose record count is 0 or absent (no row, or a row with a
\* NULL count) is red (MISSING), whether or not its provider and
\* weekday-class have a baseline.
C5_ZeroOrAbsentIsMissing ==
    out.status = "done" =>
        \A p \in InFeed, d \in DatesInFeed :
            ZeroOrAbsent(p, d) => /\ WrittenAt(p, d) = Missing
                                  /\ FillAt(p, d) = "red"

C5_Witness ==
    /\ out.status = "done"
    /\ \E p \in InFeed, d \in DatesInFeed :
          /\ RowsAt(p, d) # {} /\ ~(CHOOSE r \in RowsAt(p, d) : TRUE).RECORDS.na
          /\ CountOf(p, d) = 0
          /\ out.stats[<<p, IsWeekend(d)>>].present
          /\ StdPositive(out.stats[<<p, IsWeekend(d)>>])
          /\ FillAt(p, d) = "red"
    /\ \E p \in InFeed, d \in DatesInFeed :
          /\ RowsAt(p, d) = {}
          /\ ~out.stats[<<p, IsWeekend(d)>>].present
          /\ FillAt(p, d) = "red"

\* C6: a cell that is not MISSING is classified by z = |value - mean| / std
\* of its provider's baseline for the column's weekday-class: orange for
\* z > 3, yellow for 2 < z <= 3, green for z <= 2, and green when the
\* baseline is absent or its standard deviation is zero.  With n, S, Q the
\* number, sum and sum of squares of the qualifying records, z > t is
\* (n*value - S)^2 * (n-1) > t^2 * n * (n*Q - S^2).
C6_ZScoreClassification ==
    out.status = "done" =>
        \A p \in InFeed, d \in DatesInFeed :
            ~ZeroOrAbsent(p, d) =>
                LET q   == Qualifying(p, IsWeekend(d))
                    n   == Cardinality(q)
                    S   == SumOver(q, FALSE)
                    Q   == SumOver(q, TRUE)
                    dev == (n * CountOf(p, d) - S) * (n * CountOf(p, d) - S) * (n - 1)
                    var == n * (n * Q - S * S)
                IN FillAt(p, d) =
                       IF n > 2 /\ var > 0
                         THEN IF dev > 9 * var THEN "orange"
                              ELSE IF dev > 4 * var THEN "yellow"
                              ELSE "green"
                         ELSE "green"

\* C7: the grid has one row per distinct provider, in sorted order, and one
\* column per distinct date, in chronological order; the cell at
\* (provider, date) holds that row's record count, and a combination with
\* no row holds no value; in the sheet the date header carries the dates'
\* labels in that order, each provider is written in its row, and a
\* combination with no row is written as MISSING and filled red.
C7_PivotReshape ==
    out.status # "none" =>
        /\ Len(out.providers) = Cardinality(InFeed)
        /\ Len(out.day_order) = Cardinality(DatesInFeed)
        /\ Len(out.grid) = Cardinality(InFeed)
        /\ \A p \in InFeed :
              /\ out.providers[RankIn(p, InFeed)] = p
              /\ Len(out.grid[RankIn(p, InFeed)]) = Cardinality(DatesInFeed)
        /\ \A d \in DatesInFeed : out.day_order[RankIn(d, DatesInFeed)] = d
        /\ \A p \in InFeed, d \in DatesInFeed :
              out.grid[RankIn(p, InFeed)][RankIn(d, DatesInFeed)] =
                  IF RowsAt(p, d) = {} THEN NaN
                  ELSE (CHOOSE r \in RowsAt(p, d) : TRUE).RECORDS
        /\ out.status = "done" =>
              /\ Len(out.rows) = Cardinality(InFeed)
              /\ Len(out.header) = Cardinality(DatesInFeed)
              /\ \A d \in DatesInFeed : out.header[RankIn(d, DatesInFeed)] = DayLabel(d)
              /\ \A p \in InFeed :
                    /\ out.rows[RankIn(p, InFeed)].provider = p
                    /\ Len(out.rows[RankIn(p, InFeed)].values) = Cardinality(DatesInFeed)
              /\ \A p \in InFeed, d \in DatesInFeed :
                    IF RowsAt(p, d) = {}
                      THEN WrittenAt(p, d) = Missing /\ FillAt(p, d) = "red"
                      ELSE ~ZeroOrAbsent(p, d) => WrittenAt(p, d).v = CountOf(p, d)

C7_Witness ==
    /\ out.status = "done"
    /\ Cardinality(InFeed) = 2
    /\ Cardinality(DatesInFeed) = 5
    /\ \E p \in InFeed, d \in DatesInFeed : /\ RowsAt(p, d) = {}
                                            /\ FillAt(p, d) = "red"
    /\ \E p \in InFeed, d \in DatesInFeed : /\ ~ZeroOrAbsent(p, d)
                                            /\ CountOf(p, d) = 3
                                            /\ WrittenAt(p, d).v = 3

\* C10: a cell that is not MISSING and whose count is not negative is one
\* of the n qualifying records its baseline is computed from (the baseline,
\* when present, is over exactly the qualifying records of the cell's
\* provider and weekday-class, the cell's own row among them), and it is
\* never orange (SEVERE) when n <= 10.
C10_NoSevereUpToTenSamples ==
    out.status = "done" =>
        \A p \in InFeed, d \in DatesInFeed :
            (~ZeroOrAbsent(p, d) /\ CountOf(p, d) >= 0) =>
                LET q  == Qualifying(p, IsWeekend(d))
                    st == out.stats[<<p, IsWeekend(d)>>]
                IN /\ RowsAt(p, d) \subseteq q
                   /\ st.present => /\ st.n = Cardinality(q)
                                    /\ st.S = SumOver(q, FALSE)
                                    /\ st.Q = SumOver(q, TRUE)
                   /\ Cardinality(q) <= 10 => FillAt(p, d) # "orange"

C10_Witness ==
    /\ out.status = "done"
    /\ \E p \in InFeed, d \in DatesInFeed :
          /\ ~ZeroOrAbsent(p, d)
          /\ Cardinality(Qualifying(p, IsWeekend(d))) = 10
          /\ FillAt(p, d) = "yellow"

====
